---- MODULE Spec2Model ----
(***************************************************************************)
(* mcp-email-server: EmailClient (get_emails_stream, get_email_count,      *)
(* _build_search_criteria, send_email) and ClassicEmailHandler.get_emails. *)
(* The IMAP and SMTP servers are the environment: every awaited command    *)
(* may raise, and a fetch may answer with any of the response shapes       *)
(* below.                                                                  *)
(***************************************************************************)
EXTENDS Integers, Sequences, FiniteSets, TLC

VARIABLES
  seen,       \* the mailbox: uid -> whether the server holds \Seen for it
  flt,        \* the filter arguments (before .. is_flagged)
  args,       \* page, page_size, order
  hpc,        \* position of the caller (ClassicEmailHandler.get_emails)
  total,      \* the total get_emails returns
  spc,        \* get_emails_stream: position of the generator
  spend,      \* get_emails_stream: exception travelling through finally
  scmds,      \* get_emails_stream: commands issued on its session
  found,      \* get_emails_stream: the search response
  slice,      \* get_emails_stream: message_ids[start:end]
  start,      \* get_emails_stream: the local variable start
  end,        \* get_emails_stream: the local variable end
  sraised,    \* get_emails_stream: session commands that raised
  idx,        \* get_emails_stream: position in the slice (1-based)
  fmt,        \* get_emails_stream: position in fetch_formats (1-based)
  data,       \* get_emails_stream: the fetch response kept (<<>>: None/empty)
  tried,      \* fetch attempts made for the current identifier
  served,     \* uid -> some fetch response carried the message content
  unparsed,   \* uids whose raw bytes _parse_email_data raised on
  yielded,    \* records handed to the consumer
  abandoned,  \* the consumer stopped at a yield point
  cpc,        \* get_email_count: position
  cpend,      \* get_email_count: exception travelling through finally
  ccmds,      \* get_email_count: commands issued on its session
  cfound,     \* get_email_count: the search response
  cresult,    \* get_email_count: the value returned
  craised,    \* get_email_count: session commands that raised
  criteria,   \* _build_search_criteria: the list returned
  mail,       \* send_email: the arguments and the sender
  mpc,        \* send_email: position
  msg,        \* send_email: the headers of the message built
  delivered,  \* send_email: the recipients handed to smtp.send_message
  raw_email,  \* _parse_email_data: the message parsed
  ppc,        \* _parse_email_data: position
  parsed      \* _parse_email_data: the dictionary returned, or the raise

vars == <<seen, flt, args, hpc, total, spc, spend, scmds, found, slice, start,
          end, sraised, idx, fmt, data, tried, served, unparsed, yielded,
          abandoned, cpc, cpend, ccmds, cfound, cresult, craised, criteria,
          mail, mpc, msg, delivered, raw_email, ppc, parsed>>

mainVars == <<seen, flt, args, hpc, total, spc, spend, scmds, found, slice,
              start, end, sraised, idx, fmt, data, tried, served, unparsed,
              yielded, abandoned, cpc, cpend, ccmds, cfound, cresult, craised>>

sendVars == <<mail, mpc, msg, delivered>>

parseVars == <<raw_email, ppc, parsed>>

streamVars == <<spc, spend, scmds, found, slice, start, end, sraised, idx,
                fmt, data, tried, served, unparsed, yielded, abandoned>>

countVars == <<cpc, cpend, ccmds, cfound, cresult, craised>>

(***************************************************************************)
(* Bounds of the model.                                                    *)
(***************************************************************************)
NumMsgs == 3        \* messages in the mailbox, uids 1..NumMsgs
MaxPage == 2        \* page ranges over -1..MaxPage
MaxPageSize == 2    \* page_size ranges over -1..MaxPageSize
MaxRcpt == 2        \* longest recipients / bcc list of send_email

Uids == 1..NumMsgs

(***************************************************************************)
(* Optional arguments: None is <<>>, a given value v is <<v>>.             *)
(***************************************************************************)
None == <<>>
Some(v) == <<v>>

\* Python truthiness of an optional string argument ("if subject:")
Truthy(opt) == opt # None /\ opt[1] # ""

\* Python truthiness of an optional list argument ("if cc:")
TruthyList(opt) == opt # None /\ opt[1] # <<>>

Reverse(s) == [i \in 1..Len(s) |-> s[Len(s) + 1 - i]]

Contains(s, x) == \E i \in 1..Len(s) : s[i] = x

(***************************************************************************)
(* _build_search_criteria and _add_flag_criteria                           *)
(***************************************************************************)
MonthAbbr == <<"Jan", "Feb", "Mar", "Apr", "May", "Jun",
               "Jul", "Aug", "Sep", "Oct", "Nov", "Dec">>

\* str.upper() on the month abbreviations strftime("%b") produces
Upper(s) ==
  CASE s = "Jan" -> "JAN" [] s = "Feb" -> "FEB" [] s = "Mar" -> "MAR"
    [] s = "Apr" -> "APR" [] s = "May" -> "MAY" [] s = "Jun" -> "JUN"
    [] s = "Jul" -> "JUL" [] s = "Aug" -> "AUG" [] s = "Sep" -> "SEP"
    [] s = "Oct" -> "OCT" [] s = "Nov" -> "NOV" [] s = "Dec" -> "DEC"
    [] OTHER -> s

Pad2(n) == IF n < 10 THEN "0" \o ToString(n) ELSE ToString(n)

\* date.strftime("%d-%b-%Y").upper()
FormatDate(d) ==
  Pad2(d.day) \o "-" \o Upper(MonthAbbr[d.month]) \o "-" \o ToString(d.year)

\* the tokens of the two values of is_unread exchanged
add_flag_criteria_swapped(search_criteria, is_unread, is_flagged) ==
  LET a == IF is_unread = Some(TRUE) THEN Append(search_criteria, "SEEN")
           ELSE IF is_unread = Some(FALSE) THEN Append(search_criteria, "UNSEEN")
           ELSE search_criteria
  IN IF is_flagged = Some(TRUE) THEN Append(a, "FLAGGED")
     ELSE IF is_flagged = Some(FALSE) THEN Append(a, "UNFLAGGED")
     ELSE a

add_flag_criteria(search_criteria, is_unread, is_flagged) ==
  LET a == IF is_unread = Some(TRUE) THEN Append(search_criteria, "UNSEEN")
           ELSE IF is_unread = Some(FALSE) THEN Append(search_criteria, "SEEN")
           ELSE search_criteria
  IN IF is_flagged = Some(TRUE) THEN Append(a, "FLAGGED")
     ELSE IF is_flagged = Some(FALSE) THEN Append(a, "UNFLAGGED")
     ELSE a

\* "if no specific criteria, search for ALL"
build_default_wrong(search_criteria) ==
  Append(search_criteria, "ALL")

build_default(search_criteria) ==
  IF search_criteria = <<>> THEN <<"ALL">> ELSE search_criteria

build_search_criteria(f) ==
  LET c1 == IF f.before # None
            THEN <<"BEFORE", FormatDate(f.before[1])>> ELSE <<>>
      c2 == IF f.since # None
            THEN c1 \o <<"SINCE", FormatDate(f.since[1])>> ELSE c1
      c3 == IF Truthy(f.subject) THEN c2 \o <<"SUBJECT", f.subject[1]>> ELSE c2
      c4 == IF Truthy(f.body) THEN c3 \o <<"BODY", f.body[1]>> ELSE c3
      c5 == IF Truthy(f.text) THEN c4 \o <<"TEXT", f.text[1]>> ELSE c4
      c6 == IF Truthy(f.from_address)
            THEN c5 \o <<"FROM", f.from_address[1]>> ELSE c5
      c7 == IF Truthy(f.to_address)
            THEN c6 \o <<"TO", f.to_address[1]>> ELSE c6
      c8 == add_flag_criteria(c7, f.is_unread, f.is_flagged)
  IN build_default(c8)

(***************************************************************************)
(* The IMAP server's SEARCH: the uids, ascending, that satisfy the flag    *)
(* keys of the criteria; the value after a text or date key is not a key.  *)
(***************************************************************************)
ValueKeys == {"BEFORE", "SINCE", "SUBJECT", "BODY", "TEXT", "FROM", "TO"}

RECURSIVE SearchKeysFrom(_, _)
SearchKeysFrom(tokens, i) ==
  IF i > Len(tokens) THEN {}
  ELSE IF tokens[i] \in ValueKeys THEN {tokens[i]} \cup SearchKeysFrom(tokens, i + 2)
  ELSE {tokens[i]} \cup SearchKeysFrom(tokens, i + 1)

SearchKeys(tokens) == SearchKeysFrom(tokens, 1)

Matches(tokens, sn, u) ==
  /\ "UNSEEN" \in SearchKeys(tokens) => ~sn[u]
  /\ "SEEN" \in SearchKeys(tokens) => sn[u]

RECURSIVE Ascending(_, _, _)
Ascending(tokens, sn, u) ==
  IF u > NumMsgs THEN <<>>
  ELSE (IF Matches(tokens, sn, u) THEN <<u>> ELSE <<>>)
       \o Ascending(tokens, sn, u + 1)

\* what uid_search hands back as "messages": the shape of the lines and the
\* identifiers of the first line once split
EmptyShapes == {"None", "NoLines", "NoneLine", "EmptyLine"}

ServerSearch(tokens, sn) ==
  LET ids == Ascending(tokens, sn, 1)
  IN IF ids = <<>> THEN {[shape |-> sh, ids |-> <<>>] : sh \in EmptyShapes}
     ELSE {[shape |-> "Ids", ids |-> ids]}

NoSearch == [shape |-> "unset", ids |-> <<>>]

(***************************************************************************)
(* Fetch responses.  An item of a response is described by what the code   *)
(* tests of it: its type, its length, the byte strings it contains, the    *)
(* flag list it carries; uid and via say whose content it is and which     *)
(* request it answers.                                                     *)
(***************************************************************************)
ContentThreshold == 100

\* the encodings that mark the message read tried first
FetchFormatsNonPeekFirst ==
  <<"(BODY[] FLAGS)", "(RFC822 FLAGS)", "(BODY.PEEK[] FLAGS)", "BODY.PEEK[] FLAGS">>

FetchFormats ==
  <<"(BODY.PEEK[] FLAGS)", "BODY.PEEK[] FLAGS", "(BODY[] FLAGS)", "(RFC822 FLAGS)">>

PeekFormats == {"(BODY.PEEK[] FLAGS)", "BODY.PEEK[] FLAGS"}

\* len(" ".join(tokens))
RECURSIVE JoinedLen(_)
JoinedLen(tokens) ==
  IF tokens = <<>> THEN 0
  ELSE IF Len(tokens) = 1 THEN Len(tokens[1])
  ELSE Len(tokens[1]) + 1 + JoinedLen(Tail(tokens))

\* flags_at is item.find(b"FLAGS ("), flags_end the position of the b")" that
\* closes the list; both are -1 when the item has no flag list.  The list
\* opens after b'1 FETCH (UID 5 '.
Item(type, len, fetch, body, rfc822, hdr, flgs, hasflags, uid, via) ==
  [type |-> type, len |-> len, fetch |-> fetch, fetch_paren |-> fetch,
   body |-> body, rfc822 |-> rfc822, hdr |-> hdr, flags_open |-> hasflags,
   flags_close |-> hasflags, flags |-> flgs,
   flags_at |-> IF hasflags THEN 15 ELSE 0 - 1,
   flags_end |-> IF hasflags THEN 15 + 7 + JoinedLen(flgs) ELSE 0 - 1,
   uid |-> uid, via |-> via]

\* b'1 FETCH (UID 5 FLAGS (\\Seen) BODY[] {2000}'
HeaderLine(f, flgs, len) ==
  Item("bytes", len, TRUE, f # "(RFC822 FLAGS)", f = "(RFC822 FLAGS)", FALSE,
       flgs, TRUE, 0, f)

\* b'1 FETCH (UID 5 BODY[] {2000}'
HeaderLineNoFlags(f) ==
  Item("bytes", 30, TRUE, f # "(RFC822 FLAGS)", f = "(RFC822 FLAGS)", FALSE,
       <<>>, FALSE, 0, f)

\* the message literal
Literal(u, f, len) ==
  Item("bytearray", len, FALSE, FALSE, FALSE, TRUE, <<>>, FALSE, u, f)

\* b')'
Closing(f) == Item("bytes", 1, FALSE, FALSE, FALSE, FALSE, <<>>, FALSE, 0, f)

\* b'1 FETCH (UID 5)'
MetaLine(f) == Item("bytes", 16, TRUE, FALSE, FALSE, FALSE, <<>>, FALSE, 0, f)

\* b'1 FETCH (UID 5 FLAGS (\\Seen))'
FlagsLine(f, flgs) ==
  Item("bytes", 30, TRUE, FALSE, FALSE, FALSE, flgs, TRUE, 0, f)

ResponseKinds ==
  {"std", "noflags", "small", "hdrlong", "meta", "flagsonly", "empty"}

\* the kinds in which the server sends the body of the message
BodyKinds == {"std", "noflags", "small", "hdrlong"}

Response(kind, u, f, flgs) ==
  CASE kind = "std" ->
         <<HeaderLine(f, flgs, 40), Literal(u, f, ContentThreshold + 1), Closing(f)>>
    [] kind = "noflags" ->
         <<HeaderLineNoFlags(f), Literal(u, f, ContentThreshold + 1), Closing(f)>>
    [] kind = "small" ->
         <<HeaderLine(f, flgs, 40), Literal(u, f, ContentThreshold), Closing(f)>>
    [] kind = "hdrlong" ->
         <<HeaderLine(f, flgs, ContentThreshold + 1),
           Literal(u, f, ContentThreshold), Closing(f)>>
    [] kind = "meta" -> <<MetaLine(f)>>
    [] kind = "flagsonly" -> <<FlagsLine(f, flgs)>>
    [] OTHER -> <<>>

\* the flag list the server reports for a message
ServerFlags(sn, u) == IF sn[u] THEN <<"\\Seen">> ELSE <<"\\Recent">>

\* RFC 3501: a fetch of BODY[] or RFC822 that returns the body sets \Seen
MarkSeen(sn, u, f, kind) ==
  IF f \notin PeekFormats /\ kind \in BodyKinds
  THEN [sn EXCEPT ![u] = TRUE] ELSE sn

(***************************************************************************)
(* get_emails_stream: the tests applied to a fetch response                *)
(***************************************************************************)
IsBytesLike(item) == item.type \in {"bytes", "bytearray"}

\* "just metadata (like 'FETCH (UID 71998)'), not actual content"
IsMetadata(item) ==
  item.type = "bytes" /\ item.fetch_paren /\ ~item.rfc822 /\ ~item.body

LooksLikeContent(item) ==
  IsBytesLike(item) /\ item.len > ContentThreshold

RECURSIVE has_content_from(_, _)
has_content_from(d, i) ==
  IF i > Len(d) THEN FALSE
  ELSE IF IsMetadata(d[i]) THEN has_content_from(d, i + 1)
  ELSE IF LooksLikeContent(d[i]) THEN TRUE
  ELSE has_content_from(d, i + 1)

has_content(d) == has_content_from(d, 1)

NoRaw == [uid |-> 0, via |-> ""]

\* "Skip IMAP protocol responses"
IsProtocolLine(item) == item.type = "bytes" /\ item.fetch /\ ~item.hdr

RECURSIVE extract_from(_, _, _, _)
extract_from(d, i, raw, email_flags) ==
  IF i > Len(d) THEN [raw |-> raw, flags |-> email_flags]
  ELSE LET item == d[i]
           fl == IF item.type = "bytes" /\ item.flags_open
                    /\ item.flags_at + 7 > 6
                    /\ item.flags_end > item.flags_at + 7
                 THEN item.flags ELSE email_flags
           rw == IF LooksLikeContent(item) /\ ~IsProtocolLine(item)
                 THEN [uid |-> item.uid, via |-> item.via] ELSE raw
       IN extract_from(d, i + 1, rw, fl)

\* "email_flags = []" set before the loop over the identifiers and not again
extract_keeping_flags(d) ==
  extract_from(d, 1, NoRaw,
               IF yielded = <<>> THEN <<>> ELSE yielded[Len(yielded)].flags)

extract(d) == extract_from(d, 1, NoRaw, <<>>)

\* "start = item.find(b"FLAGS (") + 7; end = item.find(b")", start)": what
\* the loop over the items leaves in start and end
RECURSIVE reassigned_from(_, _, _, _)
reassigned_from(d, i, st, en) ==
  IF i > Len(d) THEN [start |-> st, end |-> en]
  ELSE IF d[i].type = "bytes" /\ d[i].flags_open
       THEN reassigned_from(d, i + 1, d[i].flags_at + 7, d[i].flags_end)
       ELSE reassigned_from(d, i + 1, st, en)

reassigned(d, st, en) == reassigned_from(d, 1, st, en)

\* the dictionary yielded: the parsed message and the flag fields
Record(raw, email_flags) ==
  [uid |-> raw.uid, via |-> raw.via, flags |-> email_flags,
   is_read |-> Contains(email_flags, "\\Seen"),
   is_answered |-> Contains(email_flags, "\\Answered"),
   is_flagged |-> Contains(email_flags, "\\Flagged"),
   is_deleted |-> Contains(email_flags, "\\Deleted"),
   is_draft |-> Contains(email_flags, "\\Draft"),
   is_recent |-> Contains(email_flags, "\\Recent")]

(***************************************************************************)
(* get_emails_stream: the page slice                                       *)
(***************************************************************************)
\* Python's slice bound: negative counts from the end, both clamped
Clamp(i, n) ==
  IF i < 0 THEN (IF n + i < 0 THEN 0 ELSE n + i) ELSE (IF i > n THEN n ELSE i)

PySlice(s, i, j) ==
  LET lo == Clamp(i, Len(s))
      hi == Clamp(j, Len(s))
  IN IF lo < hi THEN SubSeq(s, lo + 1, hi) ELSE <<>>

\* "if not messages or not messages[0]: message_ids = [] else split()"
stream_message_ids(messages) ==
  IF messages.shape \in {"None", "NoLines"} THEN <<>>
  ELSE IF messages.shape \in {"NoneLine", "EmptyLine"} THEN <<>>
  ELSE messages.ids

page_start_next(page, page_size) == page * page_size

page_start(page, page_size) == (page - 1) * page_size

\* "if order == "desc": message_ids.reverse()"
reversed(message_ids, order) ==
  IF order = "desc" THEN Reverse(message_ids) ELSE message_ids

ordered(message_ids, order, i, j) == PySlice(reversed(message_ids, order), i, j)

page_slice(messages, page, page_size, order) ==
  LET i == page_start(page, page_size)
      j == i + page_size
  IN ordered(stream_message_ids(messages), order, i, j)

\* a loop that takes message_ids[start:end] anew at every identifier
loop_ids_resliced(sl, message_ids, st, en) == PySlice(message_ids, st, en)

\* "for _, message_id in enumerate(message_ids[start:end])": the slice is
\* built once, when the loop is entered
loop_ids(sl, message_ids, st, en) == sl

(***************************************************************************)
(* Sessions: the commands issued, and the finally blocks                   *)
(***************************************************************************)
Cmd(name) == [cmd |-> name, uid |-> 0, fmt |-> ""]

FetchCmd(u, f) == [cmd |-> "fetch", uid |-> u, fmt |-> f]

\* a teardown written after the body instead of in a finally block
logout_on_success(cmds, pending) ==
  IF pending = "none" THEN Append(cmds, Cmd("logout")) ELSE cmds

\* a teardown that a closed generator never reaches
logout_unless_closed(cmds, pending) ==
  IF pending = "exit" THEN cmds ELSE Append(cmds, Cmd("logout"))

\* "finally: try: await imap.logout() except Exception: logger.info(...)"
stream_finally(cmds, pending) == Append(cmds, Cmd("logout"))

count_finally(cmds, pending) == Append(cmds, Cmd("logout"))

\* a finally block whose logout is not guarded: its exception leaves the block
logout_replaces(pending, ok) == IF ok THEN pending ELSE "logout error"

\* what leaves the finally block of the stream: what entered it, whether or
\* not logout raised ("except Exception as e: logger.info(...)")
stream_after_logout(pending, ok) == pending

count_after_logout(pending, ok) == pending

\* an except clause around the session set-up that logs and goes on
stream_raise_swallowed(pending) == pending

\* an awaited command raises inside "try: ... finally:": the exception is
\* pending while the finally block runs, then reaches the caller
stream_raise(pending) == "error"

count_raise(pending) == "error"

\* the ID command awaited without its try/except
id_outcome_abort(ok, pending) ==
  IF ok THEN [pc |-> "select", pending |-> pending]
  ELSE [pc |-> "finally", pending |-> "error"]

\* "try: await imap.id(...) except Exception: logger.warning(...)", then
\* "await imap.select("INBOX")"
id_outcome(ok, pending) == [pc |-> "select", pending |-> pending]

\* where the for loop goes from position i of the slice: the next
\* identifier's first fetch, or the end of the try block
LoopTo(sl, i) ==
  /\ idx' = i
  /\ fmt' = 1
  /\ data' = <<>>
  /\ tried' = <<>>
  /\ spc' = IF i <= Len(sl) THEN "fetch" ELSE "finally"

\* an exception of the per-message body leaves the loop instead of being logged
message_failed_abort(sl, i) ==
  /\ idx' = i
  /\ fmt' = 1
  /\ data' = <<>>
  /\ tried' = <<>>
  /\ spc' = "finally"

\* "except Exception as e: logger.error(...)": on to the next identifier
message_failed(sl, i) == LoopTo(sl, i + 1)

(***************************************************************************)
(* get_emails_stream                                                       *)
(***************************************************************************)
\* the local variable message_ids, once reversed
MessageIds == reversed(stream_message_ids(found), args.order)

StreamAwait(at, next) ==
  /\ hpc = "stream"
  /\ spc = at
  /\ scmds' = Append(scmds, Cmd(at))
  /\ \E ok \in BOOLEAN :
       IF ok THEN spc' = next /\ spend' = spend /\ sraised' = sraised
       ELSE /\ spc' = "finally"
            /\ spend' = stream_raise(spend)
            /\ sraised' = sraised \cup {at}
  /\ UNCHANGED <<seen, flt, args, hpc, total, found, slice, start, end, idx,
                 fmt, data, tried, served, unparsed, yielded, abandoned,
                 criteria>>
  /\ UNCHANGED countVars
  /\ UNCHANGED sendVars
  /\ UNCHANGED parseVars

StreamConnect == StreamAwait("connect", "hello")

StreamHello == StreamAwait("hello", "login")

\* a session that searches without selecting a mailbox
StreamLoginThenSearch == StreamAwait("login", "search")

StreamLogin == StreamAwait("login", "id")

\* "try: await imap.id(...) except Exception: logger.warning(...)"
StreamId ==
  /\ hpc = "stream"
  /\ spc = "id"
  /\ scmds' = Append(scmds, Cmd("id"))
  /\ \E ok \in BOOLEAN :
       /\ spc' = id_outcome(ok, spend).pc
       /\ spend' = id_outcome(ok, spend).pending
       /\ sraised' = IF ok THEN sraised ELSE sraised \cup {"id"}
  /\ UNCHANGED <<seen, flt, args, hpc, total, found, slice, start, end, idx,
                 fmt, data, tried, served, unparsed, yielded, abandoned,
                 criteria>>
  /\ UNCHANGED countVars
  /\ UNCHANGED sendVars
  /\ UNCHANGED parseVars

StreamSelect == StreamAwait("select", "search")

StreamSearch ==
  /\ hpc = "stream"
  /\ spc = "search"
  /\ scmds' = Append(scmds, Cmd("search"))
  /\ \/ /\ spc' = "finally"
        /\ spend' = stream_raise(spend)
        /\ sraised' = sraised \cup {"search"}
        /\ UNCHANGED <<found, slice, start, end, idx, fmt, data, tried>>
     \/ \E messages \in ServerSearch(build_search_criteria(flt), seen) :
          LET sl == page_slice(messages, args.page, args.page_size, args.order)
              st == page_start(args.page, args.page_size)
              en == st + args.page_size
              ids == reversed(stream_message_ids(messages), args.order)
          IN /\ found' = messages
             /\ start' = st
             /\ end' = en
             /\ slice' = sl
             /\ LoopTo(loop_ids(sl, ids, st, en), 1)
             /\ spend' = spend
             /\ sraised' = sraised
  /\ UNCHANGED <<seen, flt, args, hpc, total, served, unparsed, yielded,
                 abandoned, criteria>>
  /\ UNCHANGED countVars
  /\ UNCHANGED sendVars
  /\ UNCHANGED parseVars

\* a response carries the message: a fragment longer than the threshold with
\* header-like markers
ContentFragment(item) == item.len > ContentThreshold /\ item.hdr

ContentBearing(d) == \E i \in 1..Len(d) : ContentFragment(d[i])

\* a response of protocol lines only: flags or other metadata, no literal
OnlyMetadata(d) ==
  /\ d # <<>>
  /\ \A i \in 1..Len(d) :
       d[i].type = "bytes" /\ d[i].fetch /\ ~d[i].body /\ ~d[i].rfc822

\* the attempts before the one being made: their format and whether they
\* returned the message; whether a response was metadata only is kept for
\* the latest attempt
earlier(attempts) ==
  [i \in 1..Len(attempts) |-> [attempts[i] EXCEPT !.meta = FALSE]]

\* "data = None  # Try next format" left out
attempt_data_kept(d) == d

\* the fallback loop goes on after a content-bearing response
attempt_done_never(d, i) == i = Len(FetchFormats)

\* "if has_content: break", or fetch_formats is exhausted
attempt_done(d, i) == has_content(d) \/ i = Len(FetchFormats)

\* "if data and len(data) > 0: ... if has_content: break else: data = None"
attempt_data(d) == IF Len(d) > 0 /\ ~has_content(d) THEN <<>> ELSE d

\* one pass of "for fetch_format in fetch_formats"
StreamFetch ==
  /\ hpc = "stream"
  /\ spc = "fetch"
  /\ LET u == loop_ids(slice, MessageIds, start, end)[idx]
         f == FetchFormats[fmt]
     IN /\ scmds' = Append(scmds, FetchCmd(u, f))
        /\ \/ \* the fetch raises: "data = None", next format
              /\ data' = <<>>
              /\ tried' = Append(earlier(tried),
                                 [fmt |-> f, content |-> FALSE, meta |-> FALSE])
              /\ IF fmt = Len(FetchFormats)
                 THEN spc' = "extract" /\ fmt' = fmt
                 ELSE spc' = spc /\ fmt' = fmt + 1
              /\ UNCHANGED <<seen, served>>
           \/ \E kind \in ResponseKinds :
                LET sn == MarkSeen(seen, u, f, kind)
                    d == Response(kind, u, f, ServerFlags(sn, u))
                IN /\ seen' = sn
                   /\ data' = attempt_data(d)
                   /\ tried' = Append(earlier(tried),
                                 [fmt |-> f, content |-> ContentBearing(d),
                                  meta |-> OnlyMetadata(d)])
                   /\ served' = [served EXCEPT ![u] = @ \/ ContentBearing(d)]
                   /\ IF attempt_done(d, fmt)
                      THEN spc' = "extract" /\ fmt' = fmt
                      ELSE spc' = spc /\ fmt' = fmt + 1
  /\ UNCHANGED <<flt, args, hpc, total, spend, found, slice, start, end,
                 sraised, idx, unparsed, yielded, abandoned, criteria>>
  /\ UNCHANGED countVars
  /\ UNCHANGED sendVars
  /\ UNCHANGED parseVars

\* after the fallback loop: skip, or extract the content and the flags, parse
\* and yield
StreamExtract ==
  /\ hpc = "stream"
  /\ spc = "extract"
  /\ LET u == loop_ids(slice, MessageIds, start, end)[idx]
         e == extract(data)
         r == IF data = <<>> THEN [start |-> start, end |-> end]
              ELSE reassigned(data, start, end)
         ids == loop_ids(slice, MessageIds, r.start, r.end)
     IN /\ start' = r.start
        /\ end' = r.end
        /\ IF data = <<>> \/ e.raw = NoRaw
           THEN \* "continue" / "Could not find email data"
                /\ LoopTo(ids, idx + 1)
                /\ UNCHANGED <<yielded, unparsed>>
           ELSE \/ \* _parse_email_data returns: yield
                   /\ yielded' = Append(yielded, Record(e.raw, e.flags))
                   /\ spc' = "yield"
                   /\ UNCHANGED <<idx, fmt, data, tried, unparsed>>
                \/ \* _parse_email_data raises
                   /\ unparsed' = unparsed \cup {u}
                   /\ message_failed(ids, idx)
                   /\ UNCHANGED yielded
  /\ UNCHANGED <<seen, flt, args, hpc, total, spend, scmds, found, slice,
                 sraised, served, abandoned, criteria>>
  /\ UNCHANGED countVars
  /\ UNCHANGED sendVars
  /\ UNCHANGED parseVars

\* the consumer asks for the next record: the generator resumes after yield
ConsumerNext ==
  /\ hpc = "stream"
  /\ spc = "yield"
  /\ ~abandoned
  /\ LoopTo(loop_ids(slice, MessageIds, start, end), idx + 1)
  /\ UNCHANGED <<seen, flt, args, hpc, total, spend, scmds, found, slice,
                 start, end, sraised, served, unparsed, yielded, abandoned,
                 criteria>>
  /\ UNCHANGED countVars
  /\ UNCHANGED sendVars
  /\ UNCHANGED parseVars

\* the consumer stops consuming at a yield point
ConsumerAbandon ==
  /\ hpc = "stream"
  /\ spc = "yield"
  /\ ~abandoned
  /\ abandoned' = TRUE
  /\ UNCHANGED <<seen, flt, args, hpc, total, spc, spend, scmds, found, slice,
                 start, end, sraised, idx, fmt, data, tried, served, unparsed,
                 yielded, criteria>>
  /\ UNCHANGED countVars
  /\ UNCHANGED sendVars
  /\ UNCHANGED parseVars

\* the abandoned generator is closed: GeneratorExit is raised at the yield;
\* it is no Exception, so neither except clause stops it
StreamClose ==
  /\ hpc = "stream"
  /\ spc = "yield"
  /\ abandoned
  /\ spc' = "finally"
  /\ spend' = "exit"
  /\ UNCHANGED <<seen, flt, args, hpc, total, scmds, found, slice, start, end,
                 sraised, idx, fmt, data, tried, served, unparsed, yielded,
                 abandoned, criteria>>
  /\ UNCHANGED countVars
  /\ UNCHANGED sendVars
  /\ UNCHANGED parseVars

\* the finally block; a failure of logout is logged and dropped
StreamLogout ==
  /\ hpc = "stream"
  /\ spc = "finally"
  /\ scmds' = stream_finally(scmds, spend)
  /\ spc' = "end"
  /\ \E ok \in BOOLEAN :
       /\ spend' = stream_after_logout(spend, ok)
       /\ sraised' = IF ok THEN sraised ELSE sraised \cup {"logout"}
  /\ UNCHANGED <<seen, flt, args, hpc, total, found, slice, start, end, idx,
                 fmt, data, tried, served, unparsed, yielded, abandoned,
                 criteria>>
  /\ UNCHANGED countVars
  /\ UNCHANGED sendVars
  /\ UNCHANGED parseVars

(***************************************************************************)
(* get_email_count                                                         *)
(***************************************************************************)
CountAwait(at, next) ==
  /\ hpc = "count"
  /\ cpc = at
  /\ ccmds' = Append(ccmds, Cmd(at))
  /\ \E ok \in BOOLEAN :
       IF ok THEN cpc' = next /\ cpend' = cpend /\ craised' = craised
       ELSE /\ cpc' = "finally"
            /\ cpend' = count_raise(cpend)
            /\ craised' = craised \cup {at}
  /\ UNCHANGED <<seen, flt, args, hpc, total, cfound, cresult, criteria>>
  /\ UNCHANGED streamVars
  /\ UNCHANGED sendVars
  /\ UNCHANGED parseVars

CountConnect == CountAwait("connect", "hello")

CountHello == CountAwait("hello", "login")

CountLogin == CountAwait("login", "select")

CountSelect == CountAwait("select", "search")

\* "return len(messages[0].split())": None is not subscriptable, an empty
\* list has no first line, None has no split
count_raises(messages) == messages.shape \in {"None", "NoLines", "NoneLine"}

count_value(messages) == Len(messages.ids)

CountSearch ==
  /\ hpc = "count"
  /\ cpc = "search"
  /\ ccmds' = Append(ccmds, Cmd("search"))
  /\ cpc' = "finally"
  /\ \/ /\ cpend' = count_raise(cpend)
        /\ craised' = craised \cup {"search"}
        /\ UNCHANGED <<cfound, cresult>>
     \/ \E messages \in ServerSearch(build_search_criteria(flt), seen) :
          /\ cfound' = messages
          /\ craised' = craised
          /\ IF count_raises(messages)
             THEN cpend' = count_raise(cpend) /\ cresult' = cresult
             ELSE cpend' = cpend /\ cresult' = count_value(messages)
  /\ UNCHANGED <<seen, flt, args, hpc, total, criteria>>
  /\ UNCHANGED streamVars
  /\ UNCHANGED sendVars
  /\ UNCHANGED parseVars

CountLogout ==
  /\ hpc = "count"
  /\ cpc = "finally"
  /\ ccmds' = count_finally(ccmds, cpend)
  /\ cpc' = "end"
  /\ \E ok \in BOOLEAN :
       /\ cpend' = count_after_logout(cpend, ok)
       /\ craised' = IF ok THEN craised ELSE craised \cup {"logout"}
  /\ UNCHANGED <<seen, flt, args, hpc, total, cfound, cresult, criteria>>
  /\ UNCHANGED streamVars
  /\ UNCHANGED sendVars
  /\ UNCHANGED parseVars

(***************************************************************************)
(* ClassicEmailHandler.get_emails                                          *)
(***************************************************************************)
\* EmailData.from_email: the fields of the record an EmailData object has;
\* which request the content answered is not one of them
from_email(email) ==
  [uid |-> email.uid, via |-> "", flags |-> email.flags,
   is_read |-> email.is_read, is_answered |-> email.is_answered,
   is_flagged |-> email.is_flagged, is_deleted |-> email.is_deleted,
   is_draft |-> email.is_draft, is_recent |-> email.is_recent]

\* the async for ended: "total = await get_email_count(...)".  The exhausted
\* generator's frame and session are released; the handler keeps the records
\* (emails), and the search response is kept for comparison with the count.
GetEmailsCount ==
  /\ hpc = "stream"
  /\ spc = "end"
  /\ spend = "none"
  /\ hpc' = "count"
  /\ cpc' = "connect"
  /\ spc' = "released"
  /\ scmds' = <<>>
  /\ start' = 0
  /\ end' = 0
  /\ sraised' = {}
  /\ idx' = 1
  /\ fmt' = 1
  /\ data' = <<>>
  /\ tried' = <<>>
  /\ served' = [u \in Uids |-> FALSE]
  /\ unparsed' = {}
  /\ yielded' = [i \in 1..Len(yielded) |-> from_email(yielded[i])]
  /\ UNCHANGED <<seen, flt, args, total, spend, found, slice, abandoned,
                 cpend, ccmds, cfound, cresult, craised, criteria>>
  /\ UNCHANGED sendVars
  /\ UNCHANGED parseVars

\* the stream raised, or was closed by a consumer other than get_emails
GetEmailsStreamEnded ==
  /\ hpc = "stream"
  /\ spc = "end"
  /\ spend # "none"
  /\ hpc' = IF spend = "error" THEN "failed" ELSE "stopped"
  /\ UNCHANGED <<seen, flt, args, total, criteria>>
  /\ UNCHANGED streamVars
  /\ UNCHANGED countVars
  /\ UNCHANGED sendVars
  /\ UNCHANGED parseVars

\* "return EmailPageResponse(..., emails=emails, total=total)", or the
\* exception of get_email_count
GetEmailsReturn ==
  /\ hpc = "count"
  /\ cpc = "end"
  /\ IF cpend = "none"
     THEN hpc' = "returned" /\ total' = cresult
     ELSE hpc' = "failed" /\ total' = total
  /\ UNCHANGED <<seen, flt, args, criteria>>
  /\ UNCHANGED streamVars
  /\ UNCHANGED countVars
  /\ UNCHANGED sendVars
  /\ UNCHANGED parseVars

(***************************************************************************)
(* send_email                                                              *)
(***************************************************************************)
\* ", ".join(addresses)
RECURSIVE Join(_)
Join(l) ==
  IF l = <<>> THEN <<>>
  ELSE IF Len(l) = 1 THEN <<l[1]>>
  ELSE <<l[1], ", ">> \o Join(Tail(l))

Header(name, value) == [name |-> name, value |-> value]

\* MIMEText(body): the headers the constructor sets
MIMEText(body) ==
  <<Header("Content-Type", <<"text/plain; charset=\"us-ascii\"">>),
    Header("MIME-Version", <<"1.0">>),
    Header("Content-Transfer-Encoding", <<"7bit">>)>>

\* a message that also carries the hidden recipients in a Bcc header
send_email_headers_bcc(sender, recipients, subject, body, cc, bcc) ==
  MIMEText(body)
  \o <<Header("Subject", <<subject>>), Header("From", <<sender>>),
       Header("To", Join(recipients))>>
  \o (IF TruthyList(cc) THEN <<Header("Cc", Join(cc[1]))>> ELSE <<>>)
  \o (IF TruthyList(bcc) THEN <<Header("Bcc", Join(bcc[1]))>> ELSE <<>>)

send_email_headers(sender, recipients, subject, body, cc, bcc) ==
  MIMEText(body)
  \o <<Header("Subject", <<subject>>), Header("From", <<sender>>),
       Header("To", Join(recipients))>>
  \o (IF TruthyList(cc) THEN <<Header("Cc", Join(cc[1]))>> ELSE <<>>)

\* "all_recipients = recipients.copy(); extend(cc); extend(bcc)"
all_recipients(recipients, cc, bcc) ==
  recipients
  \o (IF TruthyList(cc) THEN cc[1] ELSE <<>>)
  \o (IF TruthyList(bcc) THEN bcc[1] ELSE <<>>)

SendBuild ==
  /\ mpc = "build"
  /\ msg' = send_email_headers(mail.sender, mail.recipients, mail.subject,
                               mail.body, mail.cc, mail.bcc)
  /\ mpc' = "connect"
  /\ UNCHANGED <<mail, delivered, criteria>>
  /\ UNCHANGED mainVars
  /\ UNCHANGED parseVars

\* "async with aiosmtplib.SMTP(...) as smtp": the connection
SendConnect ==
  /\ mpc = "connect"
  /\ \E ok \in BOOLEAN : mpc' = IF ok THEN "login" ELSE "failed"
  /\ UNCHANGED <<mail, msg, delivered, criteria>>
  /\ UNCHANGED mainVars
  /\ UNCHANGED parseVars

SendLogin ==
  /\ mpc = "login"
  /\ \E ok \in BOOLEAN : mpc' = IF ok THEN "send" ELSE "failed"
  /\ UNCHANGED <<mail, msg, delivered, criteria>>
  /\ UNCHANGED mainVars
  /\ UNCHANGED parseVars

\* "await smtp.send_message(msg, recipients=all_recipients)"
SendMessage ==
  /\ mpc = "send"
  /\ delivered' = Some(all_recipients(mail.recipients, mail.cc, mail.bcc))
  /\ \E ok \in BOOLEAN : mpc' = IF ok THEN "sent" ELSE "failed"
  /\ UNCHANGED <<mail, msg, criteria>>
  /\ UNCHANGED mainVars
  /\ UNCHANGED parseVars

(***************************************************************************)
(* _build_search_criteria called on a filter                               *)
(***************************************************************************)
BuildCriteria ==
  /\ hpc = "criteria"
  /\ criteria' = build_search_criteria(flt)
  /\ hpc' = "built"
  /\ UNCHANGED <<seen, flt, args, total>>
  /\ UNCHANGED streamVars
  /\ UNCHANGED countVars
  /\ UNCHANGED sendVars
  /\ UNCHANGED parseVars

(***************************************************************************)
(* Inputs and initial states                                               *)
(***************************************************************************)
Dates == {[day |-> 5, month |-> 1, year |-> 2024],
          [day |-> 31, month |-> 12, year |-> 2023]}

Tri == {None, Some(TRUE), Some(FALSE)}

OptText == {None, Some("invoice")}

Filters ==
  [before : {None} \cup {Some(d) : d \in {[day |-> 5, month |-> 1, year |-> 2024]}},
   since : {None} \cup {Some(d) : d \in {[day |-> 31, month |-> 12, year |-> 2023]}},
   subject : {None, Some(""), Some("invoice"), Some("ALL"), Some("SEEN")},
   body : OptText, text : OptText, from_address : OptText,
   to_address : OptText, is_unread : Tri, is_flagged : Tri]

\* the filters of the session model: the flag the server is asked to test
MainFilters ==
  [before : {None}, since : {None}, subject : {None}, body : {None},
   text : {None}, from_address : {None}, to_address : {None},
   is_unread : Tri, is_flagged : {None}]

NoFilter ==
  [before |-> None, since |-> None, subject |-> None, body |-> None,
   text |-> None, from_address |-> None, to_address |-> None,
   is_unread |-> None, is_flagged |-> None]

\* the mailboxes get_emails is called on: no message read, the messages
\* with an even uid read
Mailboxes == {[u \in Uids |-> FALSE], [u \in Uids |-> u % 2 = 0]}

Pages == (0 - 1)..MaxPage

PageSizes == (0 - 1)..MaxPageSize

Addrs == {"a@x", "b@x", "c@x"}

RECURSIVE SeqsUpTo(_, _)
SeqsUpTo(S, n) ==
  IF n = 0 THEN {<<>>}
  ELSE LET shorter == SeqsUpTo(S, n - 1)
       IN shorter \cup {Append(q, x) : q \in shorter, x \in S}

Mails ==
  [sender : {"a@x"}, recipients : SeqsUpTo(Addrs, MaxRcpt),
   subject : {"hi", "c@x"}, body : {"text"},
   cc : {None} \cup {Some(q) : q \in SeqsUpTo(Addrs, 1)},
   bcc : {None} \cup {Some(q) : q \in SeqsUpTo(Addrs, MaxRcpt)}]

NoMail ==
  [sender |-> "a@x", recipients |-> <<>>, subject |-> "", body |-> "",
   cc |-> None, bcc |-> None]

StreamIdle ==
  /\ spend = "none"
  /\ scmds = <<>>
  /\ found = NoSearch
  /\ slice = <<>>
  /\ start = 0
  /\ end = 0
  /\ sraised = {}
  /\ idx = 1
  /\ fmt = 1
  /\ data = <<>>
  /\ tried = <<>>
  /\ served = [u \in Uids |-> FALSE]
  /\ unparsed = {}
  /\ yielded = <<>>
  /\ abandoned = FALSE

CountIdle ==
  /\ cpc = "idle"
  /\ cpend = "none"
  /\ ccmds = <<>>
  /\ cfound = NoSearch
  /\ cresult = 0
  /\ craised = {}

SendIdle ==
  /\ mail = NoMail
  /\ mpc = "idle"
  /\ msg = <<>>
  /\ delivered = None

(***************************************************************************)
(* _parse_email_data                                                       *)
(***************************************************************************)
\* the largest number of parts of a multipart message
MaxParts == 2

\* the codecs bytes.decode knows
Codecs == {"utf-8"}

\* bytes that are not valid UTF-8, and their decoding with errors="replace"
Latin1Bytes == "caf<E9>"

Replaced == "caf<FFFD>"

\* bytes.decode(charset, errors): an unknown codec raises LookupError,
\* invalid bytes raise UnicodeDecodeError unless errors="replace"
decode(bytes, charset, errors) ==
  IF charset \notin Codecs THEN [exc |-> "LookupError"]
  ELSE IF bytes # Latin1Bytes THEN [exc |-> "none", text |-> bytes]
  ELSE IF errors = "replace" THEN [exc |-> "none", text |-> Replaced]
  ELSE [exc |-> "UnicodeDecodeError"]

\* try: decode(charset)
\* except UnicodeDecodeError: decode("utf-8", errors="replace")
decode_or_replace(bytes, charset) ==
  IF decode(bytes, charset, "strict").exc = "UnicodeDecodeError"
  THEN decode(bytes, "utf-8", "replace")
  ELSE decode(bytes, charset, "strict")

\* needle in haystack, on strings
contains(haystack, needle) ==
  \E i \in 1..(Len(haystack) - Len(needle) + 1) :
    SubSeq(haystack, i, i + Len(needle) - 1) = needle

\* str(part.get("Content-Disposition", "")): the disposition type followed
\* by the header's parameters
content_disposition(part) ==
  IF part.disposition = None THEN ""
  ELSE IF part.disposition[1].filename = None THEN part.disposition[1].type
  ELSE part.disposition[1].type \o "; filename=\""
         \o part.disposition[1].filename[1] \o "\""

\* part.get_filename(): the filename parameter of Content-Disposition
get_filename(part) ==
  IF part.disposition = None THEN None ELSE part.disposition[1].filename

\* part.get_content_charset("utf-8")
get_content_charset(part) ==
  IF part.charset = None THEN "utf-8" ELSE part.charset[1]

\* email_message.walk(): the message itself, then its parts
walk(email_message) ==
  <<[content_type |-> "multipart/mixed", disposition |-> None,
     payload |-> None, charset |-> None]>> \o email_message.parts

\* the loop over walk() from its i-th element on; payload is
\* get_payload(decode=True), None for the container
RECURSIVE walk_loop(_, _, _, _)
walk_loop(parts, i, body, attachments) ==
  IF i > Len(parts) THEN [exc |-> "none", body |-> body,
                          attachments |-> attachments]
  ELSE IF contains(content_disposition(parts[i]), "attachment")
  THEN walk_loop(parts, i + 1, body,
                 IF get_filename(parts[i]) # None
                    /\ get_filename(parts[i])[1] # ""
                 THEN Append(attachments, get_filename(parts[i])[1])
                 ELSE attachments)
  ELSE IF parts[i].content_type = "text/plain"
          /\ parts[i].payload # None /\ parts[i].payload[1] # ""
  THEN IF decode_or_replace(parts[i].payload[1],
                            get_content_charset(parts[i])).exc # "none"
       THEN [exc |-> decode_or_replace(parts[i].payload[1],
                                       get_content_charset(parts[i])).exc]
       ELSE walk_loop(parts, i + 1,
                      body \o decode_or_replace(parts[i].payload[1],
                                get_content_charset(parts[i])).text,
                      attachments)
  ELSE walk_loop(parts, i + 1, body, attachments)

\* the body and the attachments of a message
body_of(email_message) ==
  IF email_message.multipart THEN walk_loop(walk(email_message), 1, "", <<>>)
  ELSE IF email_message.payload # None /\ email_message.payload[1] # ""
  THEN IF decode_or_replace(email_message.payload[1],
                            get_content_charset(email_message)).exc # "none"
       THEN [exc |-> decode_or_replace(email_message.payload[1],
                                       get_content_charset(email_message)).exc]
       ELSE [exc |-> "none",
             body |-> decode_or_replace(email_message.payload[1],
                        get_content_charset(email_message)).text,
             attachments |-> <<>>]
  ELSE [exc |-> "none", body |-> "", attachments |-> <<>>]

\* email.utils.parsedate_tz: None for a header that is absent or no date
parsedate_tz(date_str) ==
  IF date_str = "Mon, 2 Nov 2026 10:00:00 +0000" THEN Some(date_str) ELSE None

\* the dictionary _parse_email_data returns, or the exception it raises; a
\* message without a usable Date header gets the time of the call
parse_email_data(email_message) ==
  IF body_of(email_message).exc # "none"
  THEN [exc |-> body_of(email_message).exc]
  ELSE [exc |-> "none",
        subject |-> email_message.subject,
        from |-> email_message.from,
        body |-> body_of(email_message).body,
        date |-> IF parsedate_tz(email_message.date) # None
                 THEN parsedate_tz(email_message.date) ELSE Some("now"),
        attachments |-> body_of(email_message).attachments]

\* _parse_email_data is called and returns or raises
ParseEmailData ==
  /\ hpc = "parse"
  /\ ppc = "call"
  /\ parsed' = Some(parse_email_data(raw_email))
  /\ ppc' = "done"
  /\ UNCHANGED raw_email
  /\ UNCHANGED criteria
  /\ UNCHANGED mainVars
  /\ UNCHANGED sendVars

\* Content-Disposition headers: absent, or a type with an optional filename
Dispositions ==
  {None,
   Some([type |-> "attachment", filename |-> None]),
   Some([type |-> "attachment", filename |-> Some("a.txt")]),
   Some([type |-> "ATTACHMENT", filename |-> Some("b.txt")]),
   Some([type |-> "inline", filename |-> None]),
   Some([type |-> "inline", filename |-> Some("attachment.txt")])}

\* the bytes of a part and the charset of its Content-Type
Payloads ==
  {[payload |-> Some("hello"), charset |-> None],
   [payload |-> Some(""), charset |-> None],
   [payload |-> Some(Latin1Bytes), charset |-> Some("utf-8")],
   [payload |-> Some("hello"), charset |-> Some("x-nope")]}

Parts ==
  {[content_type |-> t, disposition |-> d, payload |-> p.payload,
    charset |-> p.charset] :
     t \in {"text/plain", "text/html"}, d \in Dispositions, p \in Payloads}

DateHeaders == {"", "Mon, 2 Nov 2026 10:00:00 +0000"}

\* the messages BytesParser produces: multipart with 1..MaxParts parts, or
\* a single body
Messages ==
  {[subject |-> "hi", from |-> "a@x", date |-> d, multipart |-> TRUE,
    parts |-> q, payload |-> None, charset |-> None] :
     d \in DateHeaders, q \in SeqsUpTo(Parts, MaxParts) \ {<<>>}}
  \cup
  {[subject |-> "hi", from |-> "a@x", date |-> d, multipart |-> FALSE,
    parts |-> <<>>, payload |-> p.payload, charset |-> p.charset] :
     d \in DateHeaders, p \in Payloads}

NoMessage ==
  [subject |-> "", from |-> "", date |-> "", multipart |-> FALSE,
   parts |-> <<>>, payload |-> None, charset |-> None]

ParseIdle ==
  /\ raw_email = NoMessage
  /\ ppc = "idle"
  /\ parsed = None

\* get_emails is called on a mailbox
Init ==
  /\ seen \in Mailboxes
  /\ flt \in MainFilters
  /\ args \in [page : Pages, page_size : PageSizes, order : {"desc", "asc"}]
  /\ hpc = "stream"
  /\ total = 0
  /\ spc = "connect"
  /\ StreamIdle
  /\ CountIdle
  /\ criteria = <<>>
  /\ SendIdle
  /\ ParseIdle

Next ==
  \/ StreamConnect
  \/ StreamHello
  \/ StreamLogin
  \/ StreamId
  \/ StreamSelect
  \/ StreamSearch
  \/ StreamFetch
  \/ StreamExtract
  \/ ConsumerNext
  \/ ConsumerAbandon
  \/ StreamClose
  \/ StreamLogout
  \/ GetEmailsCount
  \/ GetEmailsStreamEnded
  \/ CountConnect
  \/ CountHello
  \/ CountLogin
  \/ CountSelect
  \/ CountSearch
  \/ CountLogout
  \/ GetEmailsReturn

Spec == Init /\ [][Next]_vars

\* get_emails_stream called without a flag filter
FairInit == Init /\ flt = NoFilter

\* an abandoned generator is closed by the event loop, and the generator
\* runs its pending steps
FairSpec ==
  /\ FairInit
  /\ [][Next]_vars
  /\ WF_vars(StreamClose)
  /\ WF_vars(StreamLogout)

\* _build_search_criteria on every filter of Filters
CriteriaInit ==
  /\ seen = [u \in Uids |-> FALSE]
  /\ flt \in Filters
  /\ args = [page |-> 1, page_size |-> 1, order |-> "desc"]
  /\ hpc = "criteria"
  /\ total = 0
  /\ spc = "idle"
  /\ StreamIdle
  /\ CountIdle
  /\ criteria = <<>>
  /\ SendIdle
  /\ ParseIdle

CriteriaNext == BuildCriteria

CriteriaSpec == CriteriaInit /\ [][CriteriaNext]_vars

\* send_email on every mail of Mails
SendInit ==
  /\ seen = [u \in Uids |-> FALSE]
  /\ flt = NoFilter
  /\ args = [page |-> 1, page_size |-> 1, order |-> "desc"]
  /\ hpc = "send"
  /\ total = 0
  /\ spc = "idle"
  /\ StreamIdle
  /\ CountIdle
  /\ criteria = <<>>
  /\ mail \in Mails
  /\ mpc = "build"
  /\ msg = <<>>
  /\ delivered = None
  /\ ParseIdle

SendNext ==
  \/ SendBuild
  \/ SendConnect
  \/ SendLogin
  \/ SendMessage

SendSpec == SendInit /\ [][SendNext]_vars

\* _parse_email_data on every message of Messages
ParseInit ==
  /\ seen = [u \in Uids |-> FALSE]
  /\ flt = NoFilter
  /\ args = [page |-> 1, page_size |-> 1, order |-> "desc"]
  /\ hpc = "parse"
  /\ total = 0
  /\ spc = "idle"
  /\ StreamIdle
  /\ CountIdle
  /\ criteria = <<>>
  /\ SendIdle
  /\ raw_email \in Messages
  /\ ppc = "call"
  /\ parsed = None

ParseNext == ParseEmailData

ParseSpec == ParseInit /\ [][ParseNext]_vars

(***************************************************************************)
(* Properties                                                              *)
(***************************************************************************)
Logouts(cmds) == Cardinality({i \in 1..Len(cmds) : cmds[i].cmd = "logout"})

LogoutIsLast(cmds) ==
  \A i \in 1..Len(cmds) : cmds[i].cmd = "logout" => i = Len(cmds)

\* the identifiers fetched, in the order of their first fetch
RECURSIVE FetchedFrom(_, _)
FetchedFrom(cmds, i) ==
  IF i > Len(cmds) THEN <<>>
  ELSE IF cmds[i].cmd = "fetch"
          /\ (i = 1 \/ cmds[i - 1].cmd # "fetch" \/ cmds[i - 1].uid # cmds[i].uid)
       THEN <<cmds[i].uid>> \o FetchedFrom(cmds, i + 1)
       ELSE FetchedFrom(cmds, i + 1)

Fetched == FetchedFrom(scmds, 1)

IsPrefix(p, q) == Len(p) <= Len(q) /\ \A i \in 1..Len(p) : p[i] = q[i]

YieldedUids == [i \in 1..Len(yielded) |-> yielded[i].uid]

StreamRunning == spc \in {"fetch", "extract", "yield", "finally", "end"}

Searched == found.shape # "unset"

\* C1: every invocation of get_emails_stream or get_email_count that has
\* terminated, normally or by an exception raised at any step, has invoked
\* logout on its session exactly once, and no command follows a logout.
C1_LogoutExactlyOnce ==
  /\ LogoutIsLast(scmds)
  /\ LogoutIsLast(ccmds)
  /\ Logouts(scmds) <= 1
  /\ Logouts(ccmds) <= 1
  /\ spc = "end" => Logouts(scmds) = 1
  /\ cpc = "end" => Logouts(ccmds) = 1

\* the stream ended by the exception its search raised, logout being the
\* command after the search
C1_Witness ==
  /\ spc = "end"
  /\ spend = "error"
  /\ Len(scmds) = 7
  /\ scmds[6].cmd = "search"
  /\ scmds[7].cmd = "logout"

\* C2: when the consumer of get_emails_stream stops consuming at a yield
\* point, after any number of records, logout is eventually invoked on the
\* session.
C2_AbandonLeadsToLogout == abandoned ~> (Logouts(scmds) = 1)

\* the consumer stopped after its second record and the session was logged out
C2_Witness ==
  /\ abandoned
  /\ Len(yielded) = 2
  /\ spc = "end"
  /\ Logouts(scmds) = 1

\* C3: whichever identifiers of the page slice fail (no fetch response with
\* content, or a parse that raises), the stream, once consumed, has yielded
\* exactly one record for each other identifier of the slice, in slice order;
\* every identifier of the slice was fetched, and nothing was raised after
\* the search.
C3_PerMessageIsolation ==
  LET Good(u) == served[u] /\ u \notin unparsed
  IN /\ (Searched /\ StreamRunning) => spend # "error"
     /\ (spc = "end" /\ spend = "none" /\ Searched) =>
          /\ YieldedUids = SelectSeq(slice, Good)
          /\ Fetched = slice

\* the first identifier of a two-identifier slice failed at its parse, the
\* second was yielded
C3_Witness ==
  /\ spc = "end"
  /\ spend = "none"
  /\ Len(slice) = 2
  /\ slice[1] \in unparsed
  /\ YieldedUids = <<slice[2]>>

\* C4: for the identifier being fetched the encodings are issued in the order
\* of fetch_formats; no encoding is issued after a content-bearing response;
\* the record yielded is built from the response to the last encoding issued,
\* which is content-bearing.
C4_FetchFallback ==
  (spc \in {"fetch", "extract", "yield"}) =>
    /\ Len(tried) <= Len(FetchFormats)
    /\ Len(tried) <= Len(scmds)
    /\ \A i \in 1..Len(tried) :
         /\ tried[i].fmt = FetchFormats[i]
         /\ scmds[Len(scmds) - Len(tried) + i] = FetchCmd(slice[idx], FetchFormats[i])
         /\ i < Len(tried) => ~tried[i].content
    /\ spc = "yield" =>
         /\ Len(tried) >= 1
         /\ tried[Len(tried)].content
         /\ yielded[Len(yielded)].uid = slice[idx]
         /\ yielded[Len(yielded)].via = tried[Len(tried)].fmt

\* only the third encoding returned content: the record comes from it and the
\* fourth encoding was not issued
C4_Witness ==
  /\ spc = "yield"
  /\ Len(tried) = 3
  /\ yielded[Len(yielded)].via = "(BODY[] FLAGS)"
  /\ scmds[Len(scmds)].fmt = "(BODY[] FLAGS)"

\* the elements at positions [(page-1)*page_size, page*page_size) of a list
RankSlice(l, page, page_size) ==
  LET lo == (page - 1) * page_size
      left == Len(l) - lo
      n == IF left < 0 THEN 0 ELSE IF left < page_size THEN left ELSE page_size
  IN [i \in 1..n |-> l[lo + i]]

\* C5: for page >= 1 and page_size >= 1 the identifiers fetched are the
\* elements at positions [(page-1)*page_size, page*page_size) of the search
\* result, reversed first when order is "desc", fetched in that order.
C5_Pagination ==
  (Searched /\ args.page >= 1 /\ args.page_size >= 1) =>
    LET l == IF args.order = "desc" THEN Reverse(found.ids) ELSE found.ids
    IN /\ slice = RankSlice(l, args.page, args.page_size)
       /\ StreamRunning => IsPrefix(Fetched, slice)
       /\ (spc = "end" /\ spend = "none") => Fetched = slice

\* page 2 of size 1 over three matches, descending: the second of the
\* reversed list
C5_Witness ==
  /\ spc = "end"
  /\ spend = "none"
  /\ args = [page |-> 2, page_size |-> 1, order |-> "desc"]
  /\ found.ids = <<1, 2, 3>>
  /\ Fetched = <<2>>

\* C6: whenever page < 1 or (page-1)*page_size >= the number of matches, the
\* stream issues no fetch, yields nothing and raises nothing.
C6_OutOfRangeIsEmpty ==
  (Searched /\ StreamRunning
     /\ (args.page < 1 \/ (args.page - 1) * args.page_size >= Len(found.ids))) =>
    /\ slice = <<>>
    /\ Fetched = <<>>
    /\ yielded = <<>>
    /\ spend # "error"

\* C7: the total get_emails returns is the number of identifiers the search
\* of the stream matched.
C7_TotalIsMatchCount == hpc = "returned" => total = Len(found.ids)

\* C8: an empty or missing search response is zero matches in both
\* operations: the stream yields nothing and raises nothing, the count
\* returns 0.
C8_EmptySearchIsZero ==
  /\ (found.shape \in EmptyShapes /\ spc = "end") =>
       (spend = "none" /\ yielded = <<>>)
  /\ (cfound.shape \in EmptyShapes /\ cpc = "end") =>
       (cpend = "none" /\ cresult = 0)

ListOf(opt) == IF opt = None THEN <<>> ELSE opt[1]

Elems(l) == {l[i] : i \in 1..Len(l)}

HeadersIgnoreBcc ==
  \A b \in {None} \cup {Some(q) : q \in SeqsUpTo(Addrs, MaxRcpt)} :
    msg = send_email_headers(mail.sender, mail.recipients, mail.subject,
                             mail.body, mail.cc, b)

DeliveryIsAll ==
  delivered # None =>
    /\ delivered[1] = mail.recipients \o ListOf(mail.cc) \o ListOf(mail.bcc)
    /\ Elems(ListOf(mail.bcc)) \subseteq Elems(delivered[1])

Hidden == Elems(ListOf(mail.bcc)) \ (Elems(mail.recipients) \cup Elems(ListOf(mail.cc)))

\* C9 as stated: the headers do not depend on bcc, no header contains a bcc
\* address that is not also in recipients or cc, and the delivery list is
\* recipients, then cc, then bcc.
C9_BccHidden ==
  mpc \notin {"idle", "build"} =>
    /\ HeadersIgnoreBcc
    /\ \A i \in 1..Len(msg) : Elems(msg[i].value) \cap Hidden = {}
    /\ DeliveryIsAll

\* C9 as amended: the headers do not depend on bcc, no header other than From
\* and Subject contains a bcc address that is not also in recipients or cc,
\* and the delivery list is recipients, then cc, then bcc.
C9_BccHiddenAmended ==
  mpc \notin {"idle", "build"} =>
    /\ HeadersIgnoreBcc
    /\ \A i \in 1..Len(msg) :
         msg[i].name \notin {"From", "Subject"} =>
           Elems(msg[i].value) \cap Hidden = {}
    /\ DeliveryIsAll

\* recipients [b@x], bcc [c@x]: sent to both, c@x in no header
C9_Witness ==
  /\ mpc = "sent"
  /\ mail.recipients = <<"b@x">>
  /\ mail.cc = None
  /\ mail.bcc = Some(<<"c@x">>)
  /\ mail.subject = "hi"
  /\ delivered = Some(<<"b@x", "c@x">>)
  /\ \A i \in 1..Len(msg) : "c@x" \notin Elems(msg[i].value)

NoFieldSet(f) ==
  /\ f.before = None /\ f.since = None /\ f.subject = None /\ f.body = None
  /\ f.text = None /\ f.from_address = None /\ f.to_address = None
  /\ f.is_unread = None /\ f.is_flagged = None

\* C10: _build_search_criteria returns exactly <<ALL>> when no filter field is
\* set; for every filter the result is not empty, and the search key ALL is in
\* it only when it is the whole result.
C10_MatchAll ==
  hpc = "built" =>
    /\ NoFieldSet(flt) => criteria = <<"ALL">>
    /\ criteria # <<>>
    /\ "ALL" \in SearchKeys(criteria) => criteria = <<"ALL">>

\* the filter with no field set was built
C10_Witness ==
  /\ hpc = "built"
  /\ NoFieldSet(flt)
  /\ criteria = <<"ALL">>

FlagKeys == {"UNSEEN", "SEEN", "FLAGGED", "UNFLAGGED"}

\* the positions of the criteria that hold a search key, not a key's value
RECURSIVE KeyPositionsFrom(_, _)
KeyPositionsFrom(tokens, i) ==
  IF i > Len(tokens) THEN {}
  ELSE IF tokens[i] \in ValueKeys THEN {i} \cup KeyPositionsFrom(tokens, i + 2)
  ELSE {i} \cup KeyPositionsFrom(tokens, i + 1)

FlagPositions(tokens) ==
  {i \in KeyPositionsFrom(tokens, 1) : tokens[i] \in FlagKeys}

\* C11: is_unread true puts the key UNSEEN and not SEEN in the criteria, false
\* SEEN and not UNSEEN, absent neither; is_flagged likewise with FLAGGED and
\* UNFLAGGED; every flag key stands after all date and text tokens.
C11_TriStateFlags ==
  hpc = "built" =>
    LET keys == SearchKeys(criteria)
    IN /\ flt.is_unread = Some(TRUE) => ("UNSEEN" \in keys /\ "SEEN" \notin keys)
       /\ flt.is_unread = Some(FALSE) => ("SEEN" \in keys /\ "UNSEEN" \notin keys)
       /\ flt.is_unread = None => ("SEEN" \notin keys /\ "UNSEEN" \notin keys)
       /\ flt.is_flagged = Some(TRUE) =>
            ("FLAGGED" \in keys /\ "UNFLAGGED" \notin keys)
       /\ flt.is_flagged = Some(FALSE) =>
            ("UNFLAGGED" \in keys /\ "FLAGGED" \notin keys)
       /\ flt.is_flagged = None =>
            ("FLAGGED" \notin keys /\ "UNFLAGGED" \notin keys)
       /\ \A i \in FlagPositions(criteria) :
            \A j \in 1..Len(criteria) : j > i => j \in FlagPositions(criteria)

\* is_unread false and is_flagged true after a date and a subject: the
\* criteria end with SEEN FLAGGED
C11_Witness ==
  /\ hpc = "built"
  /\ flt.is_unread = Some(FALSE)
  /\ flt.is_flagged = Some(TRUE)
  /\ criteria = <<"SINCE", "31-DEC-2023", "SUBJECT", "invoice", "SEEN", "FLAGGED">>

\* C12: an encoding that marks the message read is issued for an identifier
\* only after both peek encodings were issued for it and neither returned a
\* content-bearing fragment (they raised, or returned none); a message that was
\* unread when a peek encoding retrieved it is still unread.
C12_PeekBeforeNonPeek ==
  /\ (spc \in {"fetch", "extract", "yield"}) =>
       \A i \in 1..Len(tried) :
         tried[i].fmt \notin PeekFormats =>
           /\ i > 2
           /\ {tried[1].fmt, tried[2].fmt} = PeekFormats
           /\ ~tried[1].content
           /\ ~tried[2].content
  /\ \A p \in 1..Len(scmds) :
       (scmds[p].cmd = "fetch" /\ scmds[p].fmt \notin PeekFormats) =>
         /\ p > 2
         /\ scmds[p - 1].cmd = "fetch"
         /\ scmds[p - 1].uid = scmds[p].uid
         /\ scmds[p - 1].fmt \in PeekFormats =>
              /\ scmds[p - 2] = FetchCmd(scmds[p].uid, scmds[p - 2].fmt)
              /\ {scmds[p - 2].fmt, scmds[p - 1].fmt} = PeekFormats
  /\ \A i \in 1..Len(yielded) :
       (yielded[i].via \in PeekFormats /\ yielded[i].flags = <<"\\Recent">>) =>
         ~seen[yielded[i].uid]

\* an unread message retrieved by a peek encoding stays unread; the next one,
\* retrieved by (BODY[] FLAGS) after both peek encodings failed, is read
C12_Witness ==
  /\ Len(yielded) = 2
  /\ yielded[1].via \in PeekFormats
  /\ yielded[1].flags = <<"\\Recent">>
  /\ ~seen[yielded[1].uid]
  /\ yielded[2].via = "(BODY[] FLAGS)"
  /\ seen[yielded[2].uid]

\* C13: an identifier is skipped for lack of content only after all four
\* encodings were attempted: when the fallback loop keeps a response, the
\* extraction finds the raw message in it.
C13_SkipOnlyAfterAllFormats ==
  spc = "extract" =>
    /\ data # <<>> => extract(data).raw # NoRaw
    /\ (data = <<>> \/ extract(data).raw = NoRaw) =>
         Len(tried) = Len(FetchFormats)

Rank(c) ==
  CASE c = "connect" -> 1 [] c = "hello" -> 2 [] c = "login" -> 3
    [] c = "id" -> 4 [] c = "select" -> 5 [] c = "search" -> 6
    [] c = "fetch" -> 7 [] c = "logout" -> 8

HasCmd(cmds, c) == \E i \in 1..Len(cmds) : cmds[i].cmd = c

\* every command is of a later stage than the one before it, or both are
\* fetches: no command follows a command of a later stage
InOrder(cmds) ==
  \A i \in 2..Len(cmds) :
    \/ Rank(cmds[i - 1].cmd) < Rank(cmds[i].cmd)
    \/ (cmds[i - 1].cmd = "fetch" /\ cmds[i].cmd = "fetch")

\* command c was issued only if command prev was issued and returned
Needs(cmds, raised, c, prev) ==
  HasCmd(cmds, c) => (HasCmd(cmds, prev) /\ prev \notin raised)

\* C14: on both sessions the commands are issued in the order connect,
\* greeting, login, (id,) select, search, fetches, logout; the greeting is
\* awaited only after the connection, login after the greeting, select after
\* a login that succeeded, search after a select that succeeded, every fetch
\* after a search that returned; no command of an earlier stage follows.
C14_CommandOrder ==
  /\ InOrder(scmds)
  /\ InOrder(ccmds)
  /\ Needs(scmds, sraised, "hello", "connect")
  /\ Needs(scmds, sraised, "login", "hello")
  /\ Needs(scmds, sraised, "id", "login")
  /\ Needs(scmds, sraised, "select", "login")
  /\ Needs(scmds, sraised, "search", "select")
  /\ Needs(scmds, sraised, "fetch", "search")
  /\ HasCmd(scmds, "fetch") => Searched
  /\ Needs(ccmds, craised, "hello", "connect")
  /\ Needs(ccmds, craised, "login", "hello")
  /\ Needs(ccmds, craised, "select", "login")
  /\ Needs(ccmds, craised, "search", "select")
  /\ ~HasCmd(ccmds, "fetch")

\* a whole session of the stream: six commands, two fetches, logout
C14_Witness ==
  /\ spc = "end"
  /\ Len(scmds) = 9
  /\ scmds[5].cmd = "select"
  /\ scmds[6].cmd = "search"
  /\ scmds[7].cmd = "fetch"
  /\ scmds[8].cmd = "fetch"
  /\ scmds[9].cmd = "logout"

\* C15: when the ID command raised, select is issued next and, select
\* succeeding, search; the failure alone raises nothing, and the stream, once
\* consumed, has yielded the records of the page slice as it does when the ID
\* command returns.
C15_IdFailureIgnored ==
  LET Good(u) == served[u] /\ u \notin unparsed
  IN "id" \in sraised =>
       /\ spc # "select" => HasCmd(scmds, "select")
       /\ (spc \notin {"select", "search"} /\ "select" \notin sraised) =>
            HasCmd(scmds, "search")
       /\ sraised \subseteq {"id", "logout"} => spend # "error"
       /\ (spc = "end" /\ spend = "none") =>
            /\ slice = page_slice(found, args.page, args.page_size, args.order)
            /\ YieldedUids = SelectSeq(slice, Good)

\* the ID command raised and the stream yielded the two records of its page
C15_Witness ==
  /\ "id" \in sraised
  /\ spc = "end"
  /\ spend = "none"
  /\ Len(slice) = 2
  /\ YieldedUids = slice

\* C16: after a fetch response of flags or other metadata only, nothing is
\* kept of the response; the loop is at the next encoding, or, the encoding
\* being the last, at the test that skips the identifier; no record is yielded
\* from such a response.
C16_MetadataOnlyFails ==
  (spc \in {"fetch", "extract", "yield"} /\ tried # <<>>
     /\ tried[Len(tried)].meta) =>
    /\ data = <<>>
    /\ spc # "yield"
    /\ Len(tried) < Len(FetchFormats) => (spc = "fetch" /\ fmt = Len(tried) + 1)
    /\ Len(tried) = Len(FetchFormats) => spc = "extract"
    /\ \A i \in 1..Len(yielded) : yielded[i].uid # slice[idx]

\* the fourth encoding was answered by flags only: the identifier is skipped
C16_Witness ==
  /\ spc = "extract"
  /\ Len(tried) = Len(FetchFormats)
  /\ tried[Len(tried)].meta
  /\ data = <<>>

SessionSteps == {"connect", "hello", "login", "select", "search"}

\* what the stream ends with, logout apart
StreamOutcome ==
  IF sraised \cap SessionSteps # {} THEN "error"
  ELSE IF abandoned THEN "exit" ELSE "none"

\* what the count ends with, logout apart
CountOutcome ==
  IF craised \cap SessionSteps # {} \/ count_raises(cfound) THEN "error"
  ELSE "none"

\* C17: when logout raised, the stream ends as it would have (normally after
\* its last record, by the exception an earlier command raised, or closed),
\* get_email_count returns the count it computed or raises the exception it
\* had raised, and get_emails returns that count.
C17_LogoutFailureSuppressed ==
  /\ (spc = "end" /\ "logout" \in sraised) => spend = StreamOutcome
  /\ (cpc = "end" /\ "logout" \in craised) =>
       /\ cpend = CountOutcome
       /\ cpend = "none" => cresult = Len(cfound.ids)
  /\ (hpc = "returned" /\ "logout" \in craised) => total = cresult

\* logout raised after the second record: the stream ended normally
C17_Witness ==
  /\ spc = "end"
  /\ sraised = {"logout"}
  /\ spend = "none"
  /\ Len(yielded) = 2

Establishment == {"connect", "hello", "login", "select"}

\* C18: when connect, greeting, login or select raised, the stream has issued
\* no fetch and yielded no record and ends by the exception, which get_emails
\* does not turn into a page; get_email_count ends by the exception and no
\* total is returned.
C18_EstablishmentFailureSurfaces ==
  /\ sraised \cap Establishment # {} =>
       /\ spc \in {"finally", "end"}
       /\ spend = "error"
       /\ yielded = <<>>
       /\ Fetched = <<>>
       /\ hpc \in {"stream", "failed"}
  /\ craised \cap Establishment # {} =>
       /\ cpc \in {"finally", "end"}
       /\ cpend = "error"
       /\ hpc \in {"count", "failed"}
       /\ total = 0

\* login raised: get_emails failed
C18_Witness ==
  /\ "login" \in sraised
  /\ spc = "end"
  /\ hpc = "failed"
  /\ yielded = <<>>

\* the flag list of a response: the list of its last line that has one
ListedFlags(d) ==
  LET lines == {i \in 1..Len(d) : d[i].type = "bytes" /\ d[i].flags_open}
  IN IF lines = {} THEN <<>>
     ELSE d[CHOOSE i \in lines : \A j \in lines : j <= i].flags

\* C19: the record just yielded carries the flag list of the response kept for
\* its identifier, which is the list the server holds for that message, and
\* the empty list when the response has none; the six booleans of every record
\* are the membership of the six system flags in its flag list.
C19_OwnFlags ==
  /\ \A i \in 1..Len(yielded) :
       LET r == yielded[i]
       IN /\ r.is_read = Contains(r.flags, "\\Seen")
          /\ r.is_answered = Contains(r.flags, "\\Answered")
          /\ r.is_flagged = Contains(r.flags, "\\Flagged")
          /\ r.is_deleted = Contains(r.flags, "\\Deleted")
          /\ r.is_draft = Contains(r.flags, "\\Draft")
          /\ r.is_recent = Contains(r.flags, "\\Recent")
  /\ spc = "yield" =>
       LET r == yielded[Len(yielded)]
       IN /\ r.uid = slice[idx]
          /\ r.flags = ListedFlags(data)
          /\ r.flags \in {<<>>, ServerFlags(seen, r.uid)}

\* the second record comes from a response without a flag list: its flags are
\* empty, the first record's are not
C19_Witness ==
  /\ spc = "yield"
  /\ Len(yielded) = 2
  /\ yielded[1].flags = <<"\\Seen">>
  /\ yielded[1].is_read
  /\ ListedFlags(data) = <<>>
  /\ yielded[2].flags = <<>>
  /\ ~yielded[2].is_read

\* C20: the identifiers fetched are a prefix of, and once the stream is
\* consumed are, the slice that page, page_size and order cut out of the
\* search result, whatever the fetch responses were and whatever the flag
\* extraction left in start and end.
C20_FetchedFixedBySearch ==
  (Searched /\ StreamRunning) =>
    LET expected == page_slice(found, args.page, args.page_size, args.order)
    IN /\ IsPrefix(Fetched, expected)
       /\ (spc = "end" /\ spend = "none") => Fetched = expected

\* the flag extraction of the first identifier overwrote start and end, and
\* the second identifier of the slice was fetched all the same
C20_Witness ==
  /\ spc = "end"
  /\ spend = "none"
  /\ start # page_start(args.page, args.page_size)
  /\ end # page_start(args.page, args.page_size) + args.page_size
  /\ Len(yielded) = 2
  /\ Fetched = page_slice(found, args.page, args.page_size, args.order)


\* a part whose Content-Disposition has the type attachment, in any case
AttachmentDispositioned(part) ==
  /\ part.disposition # None
  /\ part.disposition[1].type \in {"attachment", "ATTACHMENT"}

\* the decoded payload of a part
DecodedPayload(part) ==
  decode_or_replace(part.payload[1], get_content_charset(part)).text

\* the decoded payloads of the text/plain parts that are not attachments,
\* concatenated in part order from the i-th part on
RECURSIVE PlainBodyFrom(_, _)
PlainBodyFrom(parts, i) ==
  IF i > Len(parts) THEN ""
  ELSE IF parts[i].content_type = "text/plain"
          /\ ~AttachmentDispositioned(parts[i])
       THEN DecodedPayload(parts[i]) \o PlainBodyFrom(parts, i + 1)
       ELSE PlainBodyFrom(parts, i + 1)

\* the filenames of the attachment parts that have one, in part order from
\* the i-th part on
RECURSIVE AttachmentNamesFrom(_, _)
AttachmentNamesFrom(parts, i) ==
  IF i > Len(parts) THEN <<>>
  ELSE IF AttachmentDispositioned(parts[i]) /\ parts[i].disposition[1].filename # None
       THEN <<parts[i].disposition[1].filename[1]>> \o AttachmentNamesFrom(parts, i + 1)
       ELSE AttachmentNamesFrom(parts, i + 1)

\* C21: for every multipart message that _parse_email_data returns a
\* dictionary for, the body is the concatenation, in part order, of the
\* decoded payloads of exactly the text/plain parts that are not
\* attachment-dispositioned, and the attachments are, in part order, the
\* filenames of the attachment-dispositioned parts that have a filename
C21_BodyAndAttachments ==
  (ppc = "done" /\ raw_email.multipart /\ parsed[1].exc = "none") =>
    /\ parsed[1].body = PlainBodyFrom(raw_email.parts, 1)
    /\ parsed[1].attachments = AttachmentNamesFrom(raw_email.parts, 1)

====
